---- MODULE Spec2Model ----
(***************************************************************************)
(* Contact-management REST service: the contacts table, the repository     *)
(* operations over it and the HTTP routes that call them.                  *)
(*                                                                         *)
(* Strings are sequences of one-character strings, dates are               *)
(* Date(year, month, day), and the value None stands for Python's None and *)
(* SQL's NULL. An ORM object and a request body are functions from         *)
(* attribute names to values; a table row is a function whose domain is    *)
(* ContactColumns; NoContact stands for None where an object is expected.  *)
(***************************************************************************)
EXTENDS Integers, Sequences, FiniteSets, TLC

VARIABLES
    store,   \* the contacts table: primary key -> row
    nextId,  \* the next value of the primary key's sequence
    last,    \* the request handled last, as its route logs it, and its status
    sess,    \* per database session: the request in flight on it
    pages,   \* the pages GET /contacts has answered: offset -> limit and keys
    rows,    \* the keys of the rows the last query returned
    today    \* date.today()

vars == <<store, nextId, last, sess, pages, rows, today>>

None == <<"None">>

NoContact == <<>>

Date(year, month, day) == <<"date", year, month, day>>

\* ------------------------------------------------------------------ bounds

\* Primary keys range over 1..MaxId.
MaxId == 3
\* An update body of the sequential specification supplies at most this many fields.
MaxSupplied == 2

Ids == 1..MaxId

\* --------------------------------------------------------------- the entity

ContactColumns ==
    {"id", "first_name", "last_name", "email", "phone", "birthdate", "aditional_data"}

UniqueColumns == {"email", "phone"}

\* nullable=False (the primary key takes its value from its sequence).
NotNullColumns == {"first_name", "last_name", "email", "phone", "birthdate"}

\* String(n) columns and their n.
ColumnLength ==
    [first_name |-> 100, last_name |-> 100, email |-> 100, phone |-> 20,
     aditional_data |-> 500]

\* ---------------------------------------------------------------- schemas

ContactSchemaFields ==
    {"first_name", "last_name", "email", "phone", "birthday", "extra_info"}

\* Field(min_length, max_length) of ContactSchema and ContactUpdateSchema.
FieldLength ==
    [first_name |-> <<3, 100>>, last_name |-> <<3, 100>>, phone |-> <<5, 50>>,
     extra_info |-> <<0, 255>>]

LengthOk(field, value) ==
    field \in DOMAIN FieldLength =>
        /\ Len(value) >= FieldLength[field][1]
        /\ Len(value) <= FieldLength[field][2]

\* ContactSchema: every field but extra_info is required and not None.
ContactSchema(body) ==
    /\ DOMAIN body = ContactSchemaFields
    /\ \A f \in ContactSchemaFields \ {"extra_info"} : body[f] # None
    /\ \A f \in ContactSchemaFields : body[f] # None => LengthOk(f, body[f])

\* ContactUpdateSchema: every field is optional; the body holds the fields set.
ContactUpdateSchema(body) ==
    /\ DOMAIN body \subseteq ContactSchemaFields
    /\ \A f \in DOMAIN body \cap {"first_name", "last_name", "phone"} : body[f] # None
    /\ \A f \in DOMAIN body : body[f] # None => LengthOk(f, body[f])

\* ContactResponse, built from an object's attributes: id, the names, email, phone
\* and birthday are required and not None (the id of a stored row is its integer
\* key); extra_info may be missing.
ResponseRequired == {"id", "first_name", "last_name", "email", "phone", "birthday"}

ContactResponse(obj) ==
    /\ ResponseRequired \subseteq DOMAIN obj
    /\ \A a \in ResponseRequired \ {"id"} : obj[a] # None
    /\ "extra_info" \in DOMAIN obj => obj["extra_info"] # None

\* ------------------------------------------------------------ sample values

Alice == <<"A", "l", "i", "c", "e">>
Bob == <<"B", "o", "b">>
Carol == <<"C", "a", "r", "o", "l">>
Smith == <<"S", "m", "i", "t", "h">>
Jones == <<"J", "o", "n", "e", "s">>
AliceMail == <<"a", "l", "i", "c", "e", "@", "x", ".", "c", "o", "m">>
BobMail == <<"b", "o", "b", "@", "x", ".", "c", "o", "m">>
CarolMail == <<"c", "a", "r", "o", "l", "@", "x", ".", "c", "o", "m">>
Phone1 == <<"1", "2", "3", "4", "5">>
Phone2 == <<"5", "4", "3", "2", "1">>
Phone3 == <<"6", "7", "8", "9", "0">>
\* 21 digits: within ContactSchema's 50, beyond the column's String(20).
LongPhone == [i \in 1..21 |-> "9"]
Note == <<"v", "i", "p">>

\* The table as the service finds it: rows written to the database before.
SeedContacts ==
    <<[id |-> 1, first_name |-> Alice, last_name |-> Smith, email |-> AliceMail,
       phone |-> Phone1, birthdate |-> Date(1990, 5, 1), aditional_data |-> None],
      [id |-> 2, first_name |-> Bob, last_name |-> Smith, email |-> BobMail,
       phone |-> Phone2, birthdate |-> Date(1990, 5, 10), aditional_data |-> None]>>

\* The values a request may give each field.
FieldValues ==
    [first_name |-> {Carol}, last_name |-> {Jones},
     email |-> {AliceMail, CarolMail},
     phone |-> {Phone3, LongPhone},
     birthday |-> {Date(1991, 6, 25)}, extra_info |-> {Note}]

AllValues == UNION {FieldValues[f] : f \in ContactSchemaFields}

\* The bodies of PUT /contacts/{id} that supply at most n fields.
UpdateBodies(n) ==
    {b \in UNION {[S -> AllValues] :
                    S \in {T \in SUBSET ContactSchemaFields : Cardinality(T) <= n}} :
        /\ \A f \in DOMAIN b : b[f] \in FieldValues[f]
        /\ ContactUpdateSchema(b)}

\* The bodies of POST /contacts: model_dump() holds all six fields.
CreateBodies ==
    {b \in [ContactSchemaFields -> AllValues \cup {None}] :
        /\ \A f \in ContactSchemaFields \ {"extra_info"} : b[f] \in FieldValues[f]
        /\ b["extra_info"] \in FieldValues["extra_info"] \cup {None}
        /\ ContactSchema(b)}

EmptyBody == [f \in {} |-> None]

\* ------------------------------------------------------------- the ORM

\* Contact(**kwargs): the declarative constructor takes only the names of the
\* class's attributes and raises TypeError for any other.
Contact(kwargs) ==
    IF DOMAIN kwargs \subseteq ContactColumns
    THEN [exc |-> None,
          contact |-> [c \in ContactColumns |->
                          IF c \in DOMAIN kwargs THEN kwargs[c] ELSE None]]
    ELSE [exc |-> <<"TypeError">>, contact |-> NoContact]

\* setattr(contact, key, value) for each item of update_data.
SetAttrs(contact, update_data) ==
    [a \in DOMAIN contact \cup DOMAIN update_data |->
        IF a \in DOMAIN update_data THEN update_data[a] ELSE contact[a]]

\* The mapped attributes whose value differs from the loaded one.
Dirty(loaded, obj) == {c \in ContactColumns : obj[c] # loaded[c]}

\* The constraints without unique=True on email and phone.
ConstraintErrorNoUnique(db, id, row) ==
    IF \E c \in DOMAIN ColumnLength : row[c] # None /\ Len(row[c]) > ColumnLength[c]
    THEN <<"DataError">>
    ELSE IF \E c \in NotNullColumns : row[c] = None
    THEN <<"IntegrityError">>
    ELSE None

\* What the table's constraints say of `row` as the row of key `id`.
ConstraintError(db, id, row) ==
    IF \E c \in DOMAIN ColumnLength : row[c] # None /\ Len(row[c]) > ColumnLength[c]
    THEN <<"DataError">>
    ELSE IF \E c \in NotNullColumns : row[c] = None
    THEN <<"IntegrityError">>
    ELSE IF \E other \in DOMAIN db \ {id} :
                \E c \in UniqueColumns : db[other][c] = row[c]
    THEN <<"IntegrityError">>
    ELSE None

\* commit() of a new object: INSERT, the key drawn from the sequence.
Insert(db, seq, obj) ==
    LET row == [obj EXCEPT !["id"] = seq]
        err == ConstraintError(db, seq, row)
    IN  IF err # None
        THEN [exc |-> err, db |-> db, seq |-> seq + 1, contact |-> NoContact]
        ELSE [exc |-> None, db |-> [i \in DOMAIN db \cup {seq} |->
                                        IF i = seq THEN row ELSE db[i]],
              seq |-> seq + 1, contact |-> row]

\* commit() of a loaded object: UPDATE ... SET the dirty columns WHERE id = :id;
\* nothing is sent when no column is dirty.
Update(db, id, obj, dirty) ==
    IF dirty = {}
    THEN [exc |-> None, db |-> db]
    ELSE IF id \notin DOMAIN db
    THEN [exc |-> <<"StaleDataError">>, db |-> db]
    ELSE LET row == [c \in ContactColumns |-> IF c \in dirty THEN obj[c] ELSE db[id][c]]
             err == ConstraintError(db, id, row)
         IN  IF err # None
             THEN [exc |-> err, db |-> db]
             ELSE [exc |-> None, db |-> [db EXCEPT ![id] = row]]

\* A delete that is never committed.
DeleteNoCommit(db, id) == db

\* commit() of a deleted object: DELETE ... WHERE id = :id (a row already gone is
\* a warning, not an error).
Delete(db, id) == [i \in DOMAIN db \ {id} |-> db[i]]

\* refresh(contact): the mapped attributes are read again, the others stay.
Refresh(db, id, obj) ==
    IF id \notin DOMAIN db
    THEN [exc |-> <<"InvalidRequestError">>, contact |-> NoContact]
    ELSE [exc |-> None,
          contact |-> [a \in DOMAIN obj |->
                          IF a \in ContactColumns THEN db[id][a] ELSE obj[a]]]

\* ------------------------------------------------------- the repository

get_contact_by_id(db, contact_id) ==
    IF contact_id \in DOMAIN db THEN db[contact_id] ELSE NoContact

create_contact(db, seq, body) ==
    LET c == Contact(body)
    IN  IF c.exc # None
        THEN [exc |-> c.exc, db |-> db, seq |-> seq, contact |-> NoContact]
        ELSE Insert(db, seq, c.contact)

\* update_contact up to its commit: the contact is loaded and the body's fields
\* are set on it.
update_load(db, contact_id, body) ==
    LET contact == get_contact_by_id(db, contact_id)
    IN  IF contact = NoContact
        THEN [contact |-> NoContact, dirty |-> {}]
        ELSE LET obj == SetAttrs(contact, body)
             IN  [contact |-> obj, dirty |-> Dirty(contact, obj)]

\* update_contact from its commit on: commit, refresh, return.
update_commit(db, contact_id, obj, dirty) ==
    LET r == Update(db, contact_id, obj, dirty)
        f == Refresh(r.db, contact_id, obj)
    IN  IF r.exc # None
        THEN [exc |-> r.exc, db |-> db, contact |-> NoContact]
        ELSE [exc |-> f.exc, db |-> r.db, contact |-> f.contact]

update_contact(db, contact_id, body) ==
    LET l == update_load(db, contact_id, body)
    IN  IF l.contact = NoContact
        THEN [exc |-> None, db |-> db, contact |-> NoContact]
        ELSE update_commit(db, contact_id, l.contact, l.dirty)

remove_contact(db, contact_id) ==
    LET contact == get_contact_by_id(db, contact_id)
    IN  IF contact = NoContact
        THEN [db |-> db, contact |-> NoContact]
        ELSE [db |-> Delete(db, contact_id), contact |-> contact]

\* get_contacts: OFFSET and LIMIT over a SELECT with no ORDER BY, whose row order
\* the database is free to choose at every execution. The result is the set of
\* pages (each the set of its rows' keys) the query can return.
get_contacts(db, limit, offset) ==
    LET n == Cardinality(DOMAIN db)
        rest == IF n > offset THEN n - offset ELSE 0
        k == IF limit < rest THEN limit ELSE rest
    IN  {page \in SUBSET DOMAIN db : Cardinality(page) = k}

UpperCase ==
    <<"A", "B", "C", "D", "E", "F", "G", "H", "I", "J", "K", "L", "M",
      "N", "O", "P", "Q", "R", "S", "T", "U", "V", "W", "X", "Y", "Z">>

LowerCase ==
    <<"a", "b", "c", "d", "e", "f", "g", "h", "i", "j", "k", "l", "m",
      "n", "o", "p", "q", "r", "s", "t", "u", "v", "w", "x", "y", "z">>

Lower(ch) ==
    IF \E i \in DOMAIN UpperCase : UpperCase[i] = ch
    THEN LowerCase[CHOOSE i \in DOMAIN UpperCase : UpperCase[i] = ch]
    ELSE ch

\* value ILIKE pattern: in the pattern % matches any run of characters, _ any one
\* character, any other character itself whatever its case.
RECURSIVE ilike(_, _)
ilike(value, pattern) ==
    IF pattern = <<>> THEN value = <<>>
    ELSE IF Head(pattern) = "%"
    THEN \/ ilike(value, Tail(pattern))
         \/ value # <<>> /\ ilike(Tail(value), pattern)
    ELSE IF Head(pattern) = "_"
    THEN value # <<>> /\ ilike(Tail(value), Tail(pattern))
    ELSE /\ value # <<>>
         /\ Lower(Head(value)) = Lower(Head(pattern))
         /\ ilike(Tail(value), Tail(pattern))

\* One filter of search_contacts: applied when the parameter is truthy (neither
\* None nor the empty string), as column ILIKE '%' + parameter + '%'.
Filter(row, column, param) ==
    (param # None /\ param # <<>>) => ilike(row[column], <<"%">> \o param \o <<"%">>)

search_contacts(db, first_name, last_name, email) ==
    {i \in DOMAIN db :
        /\ Filter(db[i], "first_name", first_name)
        /\ Filter(db[i], "last_name", last_name)
        /\ Filter(db[i], "email", email)}

IsLeap(year) == year % 4 = 0 /\ (year % 100 # 0 \/ year % 400 = 0)

DaysInMonth(year, month) ==
    IF month = 2 THEN (IF IsLeap(year) THEN 29 ELSE 28)
    ELSE IF month \in {4, 6, 9, 11} THEN 30 ELSE 31

\* date + timedelta(days)
RECURSIVE AddDays(_, _)
AddDays(date, days) ==
    LET year == date[2]
        month == date[3]
        day == date[4]
        left == DaysInMonth(year, month) - day
    IN  IF days <= left THEN Date(year, month, day + days)
        ELSE AddDays(IF month = 12 THEN Date(year + 1, 1, 1)
                     ELSE Date(year, month + 1, 1),
                     days - left - 1)

\* date_part('day', date)
DayPart(date) == date[4]

\* The WHERE clause of get_upcoming_birthdays over the value of attribute attr.
BirthdayWindow(row, attr, start, end_date) ==
    \/ /\ DayPart(row[attr]) >= DayPart(start)
       /\ DayPart(row[attr]) <= DayPart(end_date)
    \/ /\ DayPart(end_date) < DayPart(start)
       /\ \/ DayPart(row[attr]) >= DayPart(start)
          \/ DayPart(row[attr]) <= DayPart(end_date)

\* The orders ORDER BY date_part('day', attr) ASC can give the rows of keys.
OrderedByDay(db, attr, keys) ==
    {q \in [1..Cardinality(keys) -> keys] :
        /\ \A i, j \in DOMAIN q : i # j => q[i] # q[j]
        /\ \A i, j \in DOMAIN q :
               i < j => DayPart(db[q[i]][attr]) <= DayPart(db[q[j]][attr])}

\* get_upcoming_birthdays names the class attribute Contact.birthday, which Contact
\* does not have: building the query raises AttributeError before anything is
\* executed. `rows` is the set of results (sequences of keys) the call can return.
get_upcoming_birthdays(db, start, days) ==
    LET attr == "birthday"
        end_date == AddDays(start, days)
    IN  IF attr \notin ContactColumns
        THEN [exc |-> <<"AttributeError">>, rows |-> {}]
        ELSE [exc |-> None,
              rows |-> OrderedByDay(db, attr,
                          {i \in DOMAIN db : BirthdayWindow(db[i], attr, start, end_date)})]

\* ------------------------------------------------- the service and the routes

\* ContactService: each method hands its arguments to the repository and returns
\* what the repository returns.
ContactService(result) == result


\* The status of a route that returns `contact` under response_model=ContactResponse.
Respond(contact, success) == IF ContactResponse(contact) THEN success ELSE 500

GetStatus(contact) == IF contact = NoContact THEN 404 ELSE Respond(contact, 200)

\* The route with its except branch logging the error and not raising.
CreateStatusSwallowed(r) == IF r.exc # None THEN 201 ELSE Respond(r.contact, 201)

CreateStatus(r) == IF r.exc # None THEN 500 ELSE Respond(r.contact, 201)

UpdateStatus(r) ==
    IF r.exc # None THEN 500
    ELSE IF r.contact = NoContact THEN 404
    ELSE Respond(r.contact, 200)

\* The route answering a missing contact as GET and PUT do.
DeleteStatusNotFound(r) == IF r.contact = NoContact THEN 404 ELSE 204

DeleteStatus(r) == 204

\* The status of a route that returns the rows of `keys` under
\* response_model=list[ContactResponse].
ListStatus(db, keys) == IF \A i \in keys : ContactResponse(db[i]) THEN 200 ELSE 500

SearchStatus(db, keys) == IF keys = {} THEN 404 ELSE ListStatus(db, keys)

BirthdaysStatus(db, exc, keys) == IF exc # None THEN 500 ELSE ListStatus(db, keys)

Request(op, id, body, found, exc, status) ==
    [op |-> op, id |-> id, body |-> body, found |-> found, exc |-> exc,
     status |-> status]

\* GET /contacts/{contact_id}
route_get_contact(contact_id) ==
    LET contact == ContactService(get_contact_by_id(store, contact_id))
    IN  /\ last' = Request("get", contact_id, EmptyBody, contact # NoContact,
                           None, GetStatus(contact))
        /\ UNCHANGED <<store, nextId, sess, pages, rows, today>>

\* POST /contacts
route_create_contact(body) ==
    LET r == ContactService(create_contact(store, nextId, body))
    IN  /\ r.seq <= MaxId + 1
        /\ store' = r.db
        /\ nextId' = r.seq
        /\ last' = Request("create", 0, body, FALSE, r.exc, CreateStatus(r))
        /\ UNCHANGED <<sess, pages, rows, today>>

\* PUT /contacts/{contact_id}
route_update_contact(contact_id, body) ==
    LET r == ContactService(update_contact(store, contact_id, body))
    IN  /\ store' = r.db
        /\ last' = Request("update", contact_id, EmptyBody,
                           contact_id \in DOMAIN store, r.exc, UpdateStatus(r))
        /\ UNCHANGED <<nextId, sess, pages, rows, today>>

\* PUT /contacts/{contact_id}, answering the request `last` holds.
route_update_pending ==
    /\ last.op = "update"
    /\ last.status = 0
    /\ LET r == ContactService(update_contact(store, last.id, last.body))
       IN  /\ store' = r.db
           /\ last' = [last EXCEPT !.found = last.id \in DOMAIN store,
                                   !.exc = r.exc,
                                   !.status = UpdateStatus(r)]
    /\ UNCHANGED <<nextId, sess, pages, rows, today>>

\* DELETE /contacts/{contact_id}
route_delete_contact(contact_id) ==
    LET r == ContactService(remove_contact(store, contact_id))
    IN  /\ store' = r.db
        /\ last' = Request("delete", contact_id, EmptyBody, r.contact # NoContact,
                           None, DeleteStatus(r))
        /\ UNCHANGED <<nextId, sess, pages, rows, today>>

\* GET /contacts: the page and the limit it was asked with are kept by offset,
\* for as long as the limit stays the same.
route_get_contacts(limit, offset) ==
    \E page \in ContactService(get_contacts(store, limit, offset)) :
        /\ rows' = page
        /\ pages' = [o \in {offset} \cup
                            {p \in DOMAIN pages : pages[p].limit = limit} |->
                        IF o = offset THEN [limit |-> limit, keys |-> page]
                        ELSE pages[o]]
        /\ last' = Request("list", 0, [limit |-> limit, offset |-> offset], FALSE,
                           None, ListStatus(store, page))
        /\ UNCHANGED <<store, nextId, sess, today>>

\* GET /contacts/search, answering the request `last` holds.
route_search_contacts ==
    /\ last.op = "search"
    /\ last.status = 0
    /\ rows' = ContactService(search_contacts(store, last.body.first_name,
                                              last.body.last_name, last.body.email))
    /\ last' = [last EXCEPT !.status = SearchStatus(store, rows')]
    /\ UNCHANGED <<store, nextId, sess, pages, today>>

\* GET /contacts/birthdays, answering the request `last` holds.
route_get_upcoming_birthdays ==
    /\ last.op = "birthdays"
    /\ last.status = 0
    /\ LET r == ContactService(get_upcoming_birthdays(store, today, last.body.days))
       IN  IF r.exc # None
           THEN /\ rows' = <<>>
                /\ last' = [last EXCEPT !.exc = r.exc,
                                        !.status = BirthdaysStatus(store, r.exc, {})]
           ELSE \E q \in r.rows :
                    /\ rows' = q
                    /\ last' = [last EXCEPT
                                   !.status = BirthdaysStatus(store, None,
                                                  {q[i] : i \in DOMAIN q})]
    /\ UNCHANGED <<store, nextId, sess, pages, today>>

\* ------------------------------------------- the service, one request at a time

Idle == [op |-> "idle"]

NoRequest == Request("none", 0, EmptyBody, FALSE, None, 0)

Sessions == {"s1", "s2"}

Init ==
    /\ store \in {[i \in S |-> SeedContacts[i]] : S \in SUBSET DOMAIN SeedContacts}
    /\ nextId = Len(SeedContacts) + 1
    /\ last = NoRequest
    /\ sess = [s \in Sessions |-> Idle]
    /\ pages = EmptyBody
    /\ rows = {}
    /\ today = Date(2026, 5, 25)

Get == \E id \in Ids : route_get_contact(id)

Create == \E body \in CreateBodies : route_create_contact(body)

Put == \E id \in Ids : \E body \in UpdateBodies(MaxSupplied) : route_update_contact(id, body)

Remove == \E id \in Ids : route_delete_contact(id)

Next == Get \/ Create \/ Put \/ Remove

Spec == Init /\ [][Next]_vars

\* ----------------------------- the service, requests on concurrent sessions

\* The bodies of the concurrent specification: those that set a unique column.
ConcBodies ==
    {b \in UpdateBodies(1) : DOMAIN b \subseteq {"email", "phone"} /\ b # EmptyBody
                               /\ \A f \in DOMAIN b : b[f] # LongPhone}

\* PUT /contacts/{contact_id} on session s, up to the repository's commit.
PutLoad(s, contact_id, body) ==
    LET l == ContactService(update_load(store, contact_id, body))
    IN  /\ sess[s] = Idle
        /\ IF l.contact = NoContact
           THEN /\ last' = Request("update", contact_id, EmptyBody, FALSE, None,
                                   UpdateStatus([exc |-> None, contact |-> NoContact]))
                /\ UNCHANGED sess
           ELSE /\ sess' = [sess EXCEPT ![s] =
                               [op |-> "update", id |-> contact_id,
                                contact |-> l.contact, dirty |-> l.dirty]]
                /\ UNCHANGED last
        /\ UNCHANGED <<store, nextId, pages, rows, today>>

\* PUT /contacts/{contact_id} on session s, from the repository's commit on.
PutCommit(s) ==
    /\ sess[s].op = "update"
    /\ LET r == ContactService(update_commit(store, sess[s].id, sess[s].contact,
                                          sess[s].dirty))
       IN  /\ store' = r.db
           /\ last' = Request("update", sess[s].id, EmptyBody, TRUE, r.exc,
                              UpdateStatus(r))
    /\ sess' = [sess EXCEPT ![s] = Idle]
    /\ UNCHANGED <<nextId, pages, rows, today>>

\* DELETE /contacts/{contact_id} on session s, up to the repository's commit.
RemoveLoad(s, contact_id) ==
    LET contact == ContactService(get_contact_by_id(store, contact_id))
    IN  /\ sess[s] = Idle
        /\ IF contact = NoContact
           THEN /\ last' = Request("delete", contact_id, EmptyBody, FALSE, None,
                                   DeleteStatus([db |-> store, contact |-> NoContact]))
                /\ UNCHANGED sess
           ELSE /\ sess' = [sess EXCEPT ![s] = [op |-> "delete", id |-> contact_id,
                                                contact |-> contact]]
                /\ UNCHANGED last
        /\ UNCHANGED <<store, nextId, pages, rows, today>>

\* DELETE /contacts/{contact_id} on session s, from the repository's commit on.
RemoveCommit(s) ==
    /\ sess[s].op = "delete"
    /\ store' = Delete(store, sess[s].id)
    /\ last' = Request("delete", sess[s].id, EmptyBody, TRUE, None,
                       DeleteStatus([db |-> store', contact |-> sess[s].contact]))
    /\ sess' = [sess EXCEPT ![s] = Idle]
    /\ UNCHANGED <<nextId, pages, rows, today>>

\* POST /contacts on session s: one commit and nothing read before it.
CreateOn(s, body) == sess[s] = Idle /\ route_create_contact(body)

ConcNext ==
    \E s \in Sessions :
        \/ \E id \in Ids : \E body \in ConcBodies : PutLoad(s, id, body)
        \/ PutCommit(s)
        \/ \E id \in Ids : RemoveLoad(s, id)
        \/ RemoveCommit(s)
        \/ \E body \in CreateBodies : CreateOn(s, body)

SpecConc == Init /\ [][ConcNext]_vars

\* ------------------------------------------------- one update, its body kept

InitUpdate ==
    /\ store \in {[i \in S |-> SeedContacts[i]] : S \in SUBSET DOMAIN SeedContacts}
    /\ nextId = Len(SeedContacts) + 1
    /\ \E id \in Ids : \E body \in UpdateBodies(MaxSupplied) :
          last = Request("update", id, body, FALSE, None, 0)
    /\ sess = [s \in Sessions |-> Idle]
    /\ pages = EmptyBody
    /\ rows = {}
    /\ today = Date(2026, 5, 25)

SpecUpdate == InitUpdate /\ [][route_update_pending]_vars

\* ------------------------------------------------------------ the queries

\* The longest search parameter built from SearchAlphabet.
MaxFilterLen == 2
\* GET /contacts: the rows of the table, the largest limit asked, the last page asked.
MaxRows == 11
MaxLimit == 11
MaxPage == 2
\* GET /contacts/birthdays: the longest window asked.
MaxDays == 35
\* Query(10, ge=10, le=100)
MinLimit == 10

SearchAlphabet == {"a", "B", "_", "%"}

SearchParams ==
    {None} \cup UNION {[1..k -> SearchAlphabet] : k \in 0..MaxFilterLen}

InitSearch ==
    /\ store \in {[i \in S |-> SeedContacts[i]] : S \in SUBSET DOMAIN SeedContacts}
    /\ nextId = Len(SeedContacts) + 1
    /\ \E f \in SearchParams \cup {<<"a", "l", "i">>, <<"A", "L", "I", "C", "E">>} :
       \E l \in SearchParams \cup {<<"s", "m", "i", "t", "h">>} :
       \E e \in SearchParams \cup {<<"B", "o", "b", "@">>, <<"x", ".", "c", "o", "m">>} :
          last = Request("search", 0, [first_name |-> f, last_name |-> l, email |-> e],
                         FALSE, None, 0)
    /\ sess = [s \in Sessions |-> Idle]
    /\ pages = EmptyBody
    /\ rows = {}
    /\ today = Date(2026, 5, 25)

SpecSearch == InitSearch /\ [][route_search_contacts]_vars

\* Row i of a table of generated contacts, unique in email and phone.
ListContact(i) ==
    [id |-> i, first_name |-> Alice, last_name |-> Smith,
     email |-> <<LowerCase[i]>> \o <<"@", "x", ".", "c", "o", "m">>,
     phone |-> <<"5", "5", "5", "5", LowerCase[i]>>,
     birthdate |-> Date(1990, 5, i), aditional_data |-> None]

InitList ==
    /\ \E n \in 0..MaxRows : store = [i \in 1..n |-> ListContact(i)]
    /\ nextId = Cardinality(DOMAIN store) + 1
    /\ last = NoRequest
    /\ sess = [s \in Sessions |-> Idle]
    /\ pages = EmptyBody
    /\ rows = {}
    /\ today = Date(2026, 5, 25)

List ==
    \E limit \in MinLimit..MaxLimit : \E k \in 0..MaxPage :
        route_get_contacts(limit, k * limit)

SpecList == InitList /\ [][List]_vars

InitBirthdays ==
    /\ store \in {[i \in S |-> SeedContacts[i]] : S \in SUBSET DOMAIN SeedContacts}
    /\ nextId = Len(SeedContacts) + 1
    /\ \E days \in 1..MaxDays :
          last = Request("birthdays", 0, [days |-> days], FALSE, None, 0)
    /\ sess = [s \in Sessions |-> Idle]
    /\ pages = EmptyBody
    /\ rows = {}
    /\ today \in UNION {{Date(2026, m, d) : d \in 1..DaysInMonth(2026, m)} :
                         m \in {2, 4, 5, 12}}

SpecBirthdays == InitBirthdays /\ [][route_get_upcoming_birthdays]_vars

\* ------------------------------------------------------------- properties

\* C1: in every reachable state, whatever create, update and delete requests ran
\* and however the requests of concurrent sessions interleaved, no two distinct
\* stored contacts have the same email and no two have the same phone.
C1_UniqueEmailAndPhone ==
    \A i, j \in DOMAIN store :
        i # j => store[i].email # store[j].email /\ store[i].phone # store[j].phone

\* An update was refused for a duplicate while another session's update was in flight.
C1_Witness ==
    /\ last.op = "update"
    /\ last.exc = <<"IntegrityError">>
    /\ \E s \in Sessions : sess[s].op = "update"
    /\ Cardinality(DOMAIN store) = 2

\* Whether body's email or phone is that of a stored contact.
Duplicate(db, body) ==
    \E i \in DOMAIN db : db[i].email = body.email \/ db[i].phone = body.phone

\* C2: a create request whose email or phone is that of a stored contact is
\* answered 500 and leaves the table exactly as it was.
C2_DuplicateCreateFails ==
    [][(last'.op = "create" /\ Duplicate(store, last'.body))
          => (last'.status = 500 /\ store' = store)]_vars

C2_Witness ==
    /\ last.op = "create"
    /\ Duplicate(store, last.body)
    /\ last.status = 500

\* The column that holds each field of the schemas.
ColumnOf ==
    [first_name |-> "first_name", last_name |-> "last_name", email |-> "email",
     phone |-> "phone", birthday |-> "birthdate", extra_info |-> "aditional_data"]

\* C3: a create request with valid input whose email and phone are not stored is
\* answered 201 with a new identifier, and the contact then read by that
\* identifier has every field equal to the input's.
C3_CreateThenGetById ==
    [][(last'.op = "create" /\ ContactSchema(last'.body)
            /\ ~Duplicate(store, last'.body))
          => /\ last'.status = 201
             /\ \E i \in DOMAIN store' \ DOMAIN store :
                   \A f \in ContactSchemaFields :
                       get_contact_by_id(store', i)[ColumnOf[f]] = last'.body[f]]_vars

\* C4: an update of a stored contact that is answered 200 sets exactly the supplied
\* fields to the supplied values; the contact's other fields and its identifier,
\* and every other stored contact, are as before.
C4_UpdateSetsSuppliedFields ==
    [][(last.op = "update" /\ last.status = 0 /\ last'.found
            /\ last'.status = 200)
          => LET id == last.id
                 body == last.body
             IN  /\ DOMAIN store' = DOMAIN store
                 /\ \A other \in DOMAIN store \ {id} : store'[other] = store[other]
                 /\ store'[id].id = store[id].id
                 /\ \A f \in ContactSchemaFields :
                       store'[id][ColumnOf[f]] =
                           IF f \in DOMAIN body THEN body[f]
                           ELSE store[id][ColumnOf[f]]]_vars

\* The search parameters C5 looks the deleted contact up with.
ProbeParams == {None, <<>>, <<"%">>, <<"s">>}

\* C5: once a delete of a stored contact has completed, reading its identifier is
\* answered 404, no page of the list and no search result holds it, and every
\* other stored contact is unchanged.
C5_DeleteRemoves ==
    [][(last'.op = "delete" /\ last'.found)
          => LET id == last'.id
             IN  /\ get_contact_by_id(store', id) = NoContact
                 /\ GetStatus(get_contact_by_id(store', id)) = 404
                 /\ \A limit \in MinLimit..MaxLimit : \A k \in 0..MaxPage :
                       \A page \in get_contacts(store', limit, k * limit) :
                           id \notin page
                 /\ \A f, l, e \in ProbeParams :
                       id \notin search_contacts(store', f, l, e)
                 /\ DOMAIN store' = DOMAIN store \ {id}
                 /\ \A other \in DOMAIN store \ {id} :
                       store'[other] = store[other]]_vars

\* A stored contact was deleted and another is still stored.
C5_Witness ==
    /\ last.op = "delete"
    /\ last.found
    /\ last.id \notin DOMAIN store
    /\ store # EmptyBody

\* C6: a request that names an identifier with no stored contact leaves the table
\* as it was and is answered 404 by GET and PUT and 204 by DELETE; every DELETE is
\* answered 204, and repeating it changes nothing more.
C6_AbsentIdentifier ==
    [][/\ (last'.op \in {"get", "update", "delete"} /\ last'.id \notin DOMAIN store)
            => /\ store' = store
               /\ last'.status = IF last'.op = "delete" THEN 204 ELSE 404
       /\ last'.op = "delete"
            => /\ last'.status = 204
               /\ remove_contact(store', last'.id).db = store']_vars

\* A DELETE named an identifier with no stored contact and was answered 204.
C6_Witness ==
    /\ last.op = "delete"
    /\ ~last.found
    /\ last.status = 204
    /\ last.id \notin DOMAIN store

\* Whether param occurs in value as a run of characters, whatever their case.
IsSubstring(param, value) ==
    \E k \in 0..(Len(value) - Len(param)) :
        \A j \in 1..Len(param) : Lower(value[k + j]) = Lower(param[j])

\* C7: search returns exactly the stored contacts in which every supplied
\* parameter occurs, case-insensitively, in its field; with no parameter it
\* returns all of them.
C7_SearchIsSubstringMatch ==
    (last.op = "search" /\ last.status # 0)
        => rows = {i \in DOMAIN store :
                     \A f \in {"first_name", "last_name", "email"} :
                         last.body[f] # None => IsSubstring(last.body[f], store[i][f])}

\* C8: upcomingBirthdays(days) returns exactly the contacts whose birthday's day of
\* month d has t <= d <= e when t <= e, and d >= t or d <= e when e < t (t the day
\* of month of today, e that of today + days), by d ascending.
C8_BirthdaysInWindow ==
    (last.op = "birthdays" /\ last.status # 0)
        => LET t == DayPart(today)
               e == DayPart(AddDays(today, last.body.days))
               d(i) == DayPart(store[i].birthdate)
               due == {i \in DOMAIN store :
                         IF t <= e THEN t <= d(i) /\ d(i) <= e
                         ELSE d(i) >= t \/ d(i) <= e}
           IN  /\ last.status = 200
               /\ DOMAIN rows = 1..Cardinality(due)
               /\ {rows[i] : i \in DOMAIN rows} = due
               /\ \A i, j \in DOMAIN rows : i < j => d(rows[i]) <= d(rows[j])

\* C9: on a table of n contacts that no request modifies, list(limit, offset)
\* returns min(limit, max(0, n - offset)) contacts, and the pages at offsets 0,
\* limit, 2*limit, ... are pairwise disjoint and together hold every contact.
C9_PagesPartition ==
    LET n == Cardinality(DOMAIN store)
    IN  /\ \A o \in DOMAIN pages :
              Cardinality(pages[o].keys) =
                  IF n - o < 0 THEN 0
                  ELSE IF pages[o].limit < n - o THEN pages[o].limit ELSE n - o
        /\ \A o1, o2 \in DOMAIN pages :
              o1 # o2 => pages[o1].keys \cap pages[o2].keys = {}
        /\ (\E o \in DOMAIN pages :
               \A k \in 0..MaxPage : k * pages[o].limit < n
                                        => k * pages[o].limit \in DOMAIN pages)
              => UNION {pages[o].keys : o \in DOMAIN pages} = DOMAIN store

====
